---- MODULE Spec2Model ----
(***************************************************************************)
(* A model of time_consumption_tracker.TimeTracker (tracker.py): the       *)
(* recorder (_records), the sink registry (_sinks), the configuration, the *)
(* scope context manager (_TaskContext) and summary(), run by threads that *)
(* interleave at the granularity of the tracker's lock and of the unlocked *)
(* reads the code makes.                                                   *)
(*                                                                         *)
(* Durations are whole clock ticks of one millisecond; a quotient (avg) is *)
(* an exact fraction [n, d]. A task name is the sequence of its character  *)
(* codes. An optional value (None or x) is <<>> or <<x>>.                  *)
(***************************************************************************)
EXTENDS Integers, Sequences, FiniteSets, TLC

\* ------------------------------------------------------------------ bounds
NWorkers  == 1      \* threads besides the main one
MaxClock  == 1      \* perf_counter() readings are 0..MaxClock
MaxOps    == 3      \* calls into the tracker over a run (a scope is one)

\* The main thread (thread 1) makes every kind of call. A worker thread
\* opens and closes scopes, which records and, with emit_each, broadcasts,
\* or adds and removes sinks, as the specification says.
Threads == 1..(1 + NWorkers)
IsMain(t) == t = 1

\* _lock is the set of its holders: {} when free
Free == {}

\* ------------------------------------------------------------- task names
\* A task argument that is no str (None, 7, b"a") has no character codes:
\* it is written <<-1>>.
NotAString == << -1 >>

\* isinstance(task, str)
IsStr(x) == \A k \in 1..Len(x) : x[k] >= 0

\* "a", "B", " a " (stored as "a"), " " (rejected), "" (rejected), and a
\* value that is no string (rejected)
NameInputs == { <<97>>, <<66>>, <<32, 97, 32>>, <<32>>, <<>>, NotAString }

IsSpace(c) == c \in {9, 10, 11, 12, 13, 32}

RECURSIVE LStrip(_)
LStrip(s) == IF s # <<>> /\ IsSpace(Head(s)) THEN LStrip(Tail(s)) ELSE s

RECURSIVE RStrip(_)
RStrip(s) ==
  IF s # <<>> /\ IsSpace(s[Len(s)]) THEN RStrip(SubSeq(s, 1, Len(s) - 1)) ELSE s

\* str.strip()
Strip(s) == RStrip(LStrip(s))

\* a validation that takes any str but the empty one
NameRejectedEmptyOnly(name) == ~IsStr(name) \/ name = <<>>

\* __call__: not isinstance(task, str) or not task.strip()
NameRejected(name) == ~IsStr(name) \/ Strip(name) = <<>>

\* str.lower() on ASCII
LowerChar(c) == IF c >= 65 /\ c <= 90 THEN c + 32 ELSE c
Lower(s) == [i \in 1..Len(s) |-> LowerChar(s[i])]

\* str < str: lexicographic on code points
RECURSIVE StrLess(_, _)
StrLess(a, b) ==
  IF b = <<>> THEN FALSE
  ELSE IF a = <<>> THEN TRUE
  ELSE IF Head(a) # Head(b) THEN Head(a) < Head(b)
  ELSE StrLess(Tail(a), Tail(b))

\* ---------------------------------------------------------------- numbers
Min2(a, b) == IF a <= b THEN a ELSE b
Max2(a, b) == IF a >= b THEN a ELSE b

RECURSIVE Gcd(_, _)
Gcd(a, b) == IF b = 0 THEN a ELSE Gcd(b, a % b)

\* total / count as an exact fraction in lowest terms (count >= 1)
Quot(total, count) ==
  LET g == Gcd(total, count) IN [n |-> total \div g, d |-> count \div g]

FracLess(p, q) == p.n * q.d < q.n * p.d

RECURSIVE SumSeq(_)
SumSeq(s) == IF s = <<>> THEN 0 ELSE Head(s) + SumSeq(Tail(s))

RECURSIVE MinSeq(_)
MinSeq(s) == IF Len(s) = 1 THEN s[1] ELSE Min2(Head(s), MinSeq(Tail(s)))

RECURSIVE MaxSeq(_)
MaxSeq(s) == IF Len(s) = 1 THEN s[1] ELSE Max2(Head(s), MaxSeq(Tail(s)))

\* ------------------------------------------------------------ configuration
\* TimeTracker.__init__: the behaviour knobs
DefaultConfig ==
  [emit_each |-> FALSE, time_unit |-> "ms",
   include_timestamp |-> TRUE, autoname_file_if_dir |-> TRUE]

TimeUnits == {"ms", "s"}

\* configure(): the fields are assigned in order; an unrecognized time_unit
\* raises after emit_each has been assigned. Each argument is <<>> (None,
\* not provided) or <<value>>.
ConfigureRaises(a) == a.time_unit # <<>> /\ a.time_unit[1] \notin TimeUnits

ConfigureApplyLoose(c, a) ==
  [emit_each |-> IF a.emit_each # <<>> THEN a.emit_each[1] ELSE FALSE,
   time_unit |-> IF a.time_unit # <<>> /\ ~ConfigureRaises(a)
                 THEN a.time_unit[1] ELSE c.time_unit,
   include_timestamp |->
     IF ~ConfigureRaises(a) /\ a.include_timestamp # <<>>
     THEN a.include_timestamp[1] ELSE c.include_timestamp,
   autoname_file_if_dir |->
     IF ~ConfigureRaises(a) /\ a.autoname_file_if_dir # <<>>
     THEN a.autoname_file_if_dir[1] ELSE c.autoname_file_if_dir]

ConfigureApply(c, a) ==
  [emit_each |-> IF a.emit_each # <<>> THEN a.emit_each[1] ELSE c.emit_each,
   time_unit |-> IF a.time_unit # <<>> /\ ~ConfigureRaises(a)
                 THEN a.time_unit[1] ELSE c.time_unit,
   include_timestamp |->
     IF ~ConfigureRaises(a) /\ a.include_timestamp # <<>>
     THEN a.include_timestamp[1] ELSE c.include_timestamp,
   autoname_file_if_dir |->
     IF ~ConfigureRaises(a) /\ a.autoname_file_if_dir # <<>>
     THEN a.autoname_file_if_dir[1] ELSE c.autoname_file_if_dir]

\* -------------------------------------------------------------- formatting
\* _fmt_time: "ms" prints seconds * 1000 with 3 decimals, "s" prints seconds
\* with 6 decimals; both resolve one microsecond. q is a fraction of
\* milliseconds; the digits are rounded to the nearest microsecond (no
\* quotient within the bounds falls on a half).
Micros(q) == (2 * 1000 * q.n + q.d) \div (2 * q.d)

FmtTime(unit, q) ==
  IF unit = "ms"
  THEN [unit |-> "ms", whole |-> Micros(q) \div 1000,
        frac |-> Micros(q) % 1000, digits |-> 3]
  ELSE [unit |-> "s", whole |-> Micros(q) \div 1000000,
        frac |-> Micros(q) % 1000000, digits |-> 6]

Whole(v) == [n |-> v, d |-> 1]

\* _render_event
RenderEvent(c, task, elapsed, exc) ==
  [kind |-> "event", ts |-> c.include_timestamp, level |-> "INFO",
   status |-> IF exc = <<>> THEN <<"OK">> ELSE <<"EXC", exc[1]>>,
   task |-> task, elapsed |-> FmtTime(c.time_unit, Whole(elapsed))]

\* one table row of _render_summary
RenderRow(c, s) ==
  [task |-> s.task, count |-> s.count,
   total |-> FmtTime(c.time_unit, Whole(s.total_s)),
   avg |-> FmtTime(c.time_unit, s.avg_s),
   min |-> FmtTime(c.time_unit, Whole(s.min_s)),
   max |-> FmtTime(c.time_unit, Whole(s.max_s)),
   last |-> FmtTime(c.time_unit, Whole(s.last_s))]

RECURSIVE SumTotals(_)
SumTotals(stats) ==
  IF stats = <<>> THEN 0 ELSE Head(stats).total_s + SumTotals(Tail(stats))

\* a report that always has the table and its footer
RenderSummaryAlwaysTable(c, stats) ==
  [kind |-> "summary", ts |-> c.include_timestamp, nodata |-> stats = <<>>,
   rows |-> [i \in 1..Len(stats) |-> RenderRow(c, stats[i])],
   footer |-> <<FmtTime(c.time_unit, Whole(SumTotals(stats)))>>]

\* _render_summary: with no stats the report is the title, the rule and
\* "(no data)": no header, no rows, no footer
RenderSummary(c, stats) ==
  IF stats = <<>>
  THEN [kind |-> "summary", ts |-> c.include_timestamp, nodata |-> TRUE,
        rows |-> <<>>, footer |-> <<>>]
  ELSE [kind |-> "summary", ts |-> c.include_timestamp, nodata |-> FALSE,
        rows |-> [i \in 1..Len(stats) |-> RenderRow(c, stats[i])],
        footer |-> <<FmtTime(c.time_unit, Whole(SumTotals(stats)))>>]

\* ------------------------------------------------------------------ sorting
SortKeys == {"total", "avg", "count", "max", "min", "task"}

\* key_funcs[sort_by](a) < key_funcs[sort_by](b)
KeyLess(sort_by, a, b) ==
  CASE sort_by = "total" -> a.total_s < b.total_s
    [] sort_by = "avg"   -> FracLess(a.avg_s, b.avg_s)
    [] sort_by = "count" -> a.count < b.count
    [] sort_by = "max"   -> a.max_s < b.max_s
    [] sort_by = "min"   -> a.min_s < b.min_s
    [] sort_by = "task"  -> StrLess(Lower(a.task), Lower(b.task))

\* a goes strictly before b in the requested direction
Before(sort_by, descending, a, b) ==
  IF descending THEN KeyLess(sort_by, b, a) ELSE KeyLess(sort_by, a, b)

\* x placed after every element it does not go strictly before
RECURSIVE InsertStable(_, _, _, _)
InsertStable(sort_by, descending, x, sorted) ==
  IF sorted = <<>> THEN <<x>>
  ELSE IF Before(sort_by, descending, x, Head(sorted))
       THEN <<x>> \o sorted
       ELSE <<Head(sorted)>> \o
            InsertStable(sort_by, descending, x, Tail(sorted))

RECURSIVE SortFrom(_, _, _, _)
SortFrom(sort_by, descending, rest, acc) ==
  IF rest = <<>> THEN acc
  ELSE SortFrom(sort_by, descending, Tail(rest),
                InsertStable(sort_by, descending, Head(rest), acc))

Reverse(s) == [i \in 1..Len(s) |-> s[Len(s) + 1 - i]]

\* an ascending sort reversed for descending order: ties come out reversed
SortStatsReversing(stats, sort_by, descending) ==
  IF descending THEN Reverse(SortFrom(sort_by, FALSE, stats, <<>>))
  ELSE SortFrom(sort_by, FALSE, stats, <<>>)

\* list.sort(key=..., reverse=descending): stable in both directions
SortStats(stats, sort_by, descending) ==
  SortFrom(sort_by, descending, stats, <<>>)

\* seq[:stop]
SliceTo(s, stop) ==
  IF stop >= 0 THEN SubSeq(s, 1, Min2(stop, Len(s)))
  ELSE SubSeq(s, 1, Max2(0, Len(s) + stop))

LimitStatsUnclamped(stats, limit) ==
  IF limit = <<>> THEN stats ELSE SliceTo(stats, limit[1])

\* stats[: max(0, int(limit))] when a limit is given
LimitStats(stats, limit) ==
  IF limit = <<>> THEN stats ELSE SliceTo(stats, Max2(0, limit[1]))

\* -------------------------------------------------------------------- state
VARIABLES
  lock,          \* _lock: {the thread holding it}, or {}
  records,       \* _records in insertion order: <<[task, durs], ...>>
  config,        \* _emit_each, _time_unit, _include_timestamp, _autoname_file_if_dir
  sinks,         \* _sinks: the registered sink ids in insertion order
  sinkObj,       \* every sink object made so far, by id: its kind, whether
                 \* writing to it raises, whether closing its file handle
                 \* raises, and how many times its closer has been called
  next_sink_id,  \* _next_sink_id
  th,            \* by thread: where it is in its call, and the call's locals
  closed,        \* by task: scopes whose __exit__ has returned
  cleared,       \* whether _records.clear() has run
  ncalls         \* calls into the tracker made so far

vars == <<lock, records, config, sinks, sinkObj, next_sink_id, th,
          closed, cleared, ncalls>>

\* a sink add() makes of its target
Sink(type, fails, closefails) ==
  [type |-> type, fails |-> fails, closefails |-> closefails, closes |-> 0]

\* the sink targets add() is given: a stream, a callable, a callable whose
\* every call raises
SinkTargets ==
  { Sink("stream", FALSE, FALSE),
    Sink("callable", FALSE, FALSE),
    Sink("callable", TRUE, FALSE) }

\* the path of a file ("logs/timing.log"), opened by _FileSink: one whose
\* handle closes, one whose handle raises when it is closed
FileTargets ==
  { Sink("file", FALSE, FALSE),
    Sink("file", FALSE, TRUE) }

\* the names a stored task can have
TaskNames == { Strip(n) : n \in { m \in NameInputs : ~NameRejected(m) } }

\* a thread between calls
Idle ==
  [pc |-> "idle", op |-> "none", task |-> <<>>, t0 |-> <<>>, elapsed |-> 0,
   exc |-> <<>>, args |-> <<>>, items |-> <<>>, i |-> 0,
   part |-> [total |-> 0, count |-> 0, avg |-> <<>>, mn |-> 0, mx |-> 0],
   computed |-> <<>>, stats |-> <<>>, reset |-> FALSE, msg |-> <<>>,
   copy |-> <<>>, j |-> 0, called |-> <<>>, wrote |-> <<>>, tails |-> <<>>,
   appended |-> 0, err |-> <<>>, ret |-> <<>>]

\* TimeTracker.__init__: no records, the default knobs, and stdout as sink 1
Init ==
  /\ lock = Free
  /\ records = <<>>
  /\ config = DefaultConfig
  /\ sinks = <<1>>
  /\ sinkObj = <<Sink("stream", FALSE, FALSE)>>
  /\ next_sink_id = 2
  /\ th = [t \in Threads |-> Idle]
  /\ closed = [k \in TaskNames |-> 0]
  /\ cleared = FALSE
  /\ ncalls = 0

Set(t, r) == th' = [th EXCEPT ![t] = r]

\* the index of task's entry in _records, or 0
RECURSIVE IndexOf(_, _, _)
IndexOf(recs, task, k) ==
  IF k > Len(recs) THEN 0
  ELSE IF recs[k].task = task THEN k
  ELSE IndexOf(recs, task, k + 1)

DursOf(recs, task) ==
  IF IndexOf(recs, task, 1) = 0 THEN <<>>
  ELSE recs[IndexOf(recs, task, 1)].durs

\* a recording that replaces the task's list instead of extending it
RecordSampleReplacing(recs, task, elapsed) ==
  IF IndexOf(recs, task, 1) = 0
  THEN Append(recs, [task |-> task, durs |-> <<elapsed>>])
  ELSE [recs EXCEPT ![IndexOf(recs, task, 1)].durs = <<elapsed>>]

\* _records.setdefault(task, []).append(elapsed_s)
RecordSample(recs, task, elapsed) ==
  IF IndexOf(recs, task, 1) = 0
  THEN Append(recs, [task |-> task, durs |-> <<elapsed>>])
  ELSE [recs EXCEPT ![IndexOf(recs, task, 1)].durs = Append(@, elapsed)]

\* --------------------------------------------------------------- the scope
\* TimeTracker.__call__: the name is validated, then stored stripped
Call(t, name) ==
  /\ th[t].pc = "idle"
  /\ ncalls < MaxOps
  /\ IF NameRejected(name)
     THEN /\ Set(t, [Idle EXCEPT !.pc = "done", !.op = "call",
                                 !.args = <<name>>,
                                 !.err = <<"ValueError">>])
          /\ ncalls' = ncalls
     ELSE /\ Set(t, [Idle EXCEPT !.pc = "ctx", !.op = "scope",
                                 !.args = <<name>>,
                                 !.task = Strip(name)])
          /\ ncalls' = ncalls + 1
  /\ UNCHANGED <<lock, records, config, sinks, sinkObj, next_sink_id,
                 closed, cleared>>

\* _TaskContext.__enter__: the first clock reading
Enter(t, now) ==
  /\ th[t].pc = "ctx"
  /\ Set(t, [th[t] EXCEPT !.pc = "body", !.t0 = <<now>>])
  /\ UNCHANGED <<lock, records, config, sinks, sinkObj, next_sink_id,
                 closed, cleared, ncalls>>

\* max(0.0, t1 - t0), t0 standing in as t1 when __enter__ never ran
Elapsed(t0, t1) == Max2(0, t1 - (IF t0 # <<>> THEN t0[1] ELSE t1))

\* a scope that swallows what its body raised (__exit__ returning True)
ExitReturnSuppressing(exc) == <<>>

\* __exit__ returns False: what the body raised, if anything, propagates
ExitReturn(exc) == exc

\* _TaskContext.__exit__ up to its call of _record: the body has ended,
\* normally (exc = <<>>) or by raising exc
Exit(t, now, exc) ==
  /\ th[t].pc = "body"
  /\ Set(t, [th[t] EXCEPT !.pc = "rec_lock", !.exc = exc,
                          !.elapsed = Elapsed(th[t].t0, now)])
  /\ UNCHANGED <<lock, records, config, sinks, sinkObj, next_sink_id,
                 closed, cleared, ncalls>>

\* _record: with self._lock
RecordAcquire(t) ==
  /\ th[t].pc = "rec_lock"
  /\ lock = Free
  /\ lock' = {t}
  /\ Set(t, [th[t] EXCEPT !.pc = "rec_crit"])
  /\ UNCHANGED <<records, config, sinks, sinkObj, next_sink_id,
                 closed, cleared, ncalls>>

\* _record: the append, and the lock released
RecordAppend(t) ==
  /\ th[t].pc = "rec_crit"
  /\ records' = RecordSample(records, th[t].task, th[t].elapsed)
  /\ lock' = Free
  /\ Set(t, [th[t] EXCEPT !.pc = "rec_emit", !.appended = @ + 1])
  /\ UNCHANGED <<config, sinks, sinkObj, next_sink_id,
                 closed, cleared, ncalls>>

\* an event line for every scope, whatever emit_each is
EmitsEventAlways(c) == TRUE

\* if self._emit_each
EmitsEvent(c) == c.emit_each

\* _record: if self._emit_each, read without the lock; the event line is
\* rendered from the configuration as it is now
RecordEmitEach(t) ==
  /\ th[t].pc = "rec_emit"
  /\ IF EmitsEvent(config)
     THEN Set(t, [th[t] EXCEPT
            !.pc = "emit_lock",
            !.msg = <<RenderEvent(config, th[t].task, th[t].elapsed,
                                  th[t].exc)>>])
     ELSE Set(t, [th[t] EXCEPT !.pc = "done", !.err = ExitReturn(th[t].exc)])
  /\ UNCHANGED <<lock, records, config, sinks, sinkObj, next_sink_id,
                 closed, cleared, ncalls>>

\* --------------------------------------------------------------- broadcast
\* _emit: with self._lock (the locals summary() reads no more are let go)
EmitAcquire(t) ==
  /\ th[t].pc = "emit_lock"
  /\ lock = Free
  /\ lock' = {t}
  /\ Set(t, [th[t] EXCEPT !.pc = "emit_crit", !.args = <<>>,
                          !.items = <<>>, !.computed = <<>>, !.stats = <<>>])
  /\ UNCHANGED <<records, config, sinks, sinkObj, next_sink_id,
                 closed, cleared, ncalls>>

\* a copy in the reverse of the insertion order
SinkValuesReversed(registered) ==
  [k \in 1..Len(registered) |-> registered[Len(registered) + 1 - k]]

\* list(self._sinks.values()): a dict keeps its insertion order
SinkValues(registered) == registered

\* a copy made without letting go of the lock
EmitCopyHolding(t) ==
  /\ th[t].pc = "emit_crit"
  /\ Set(t, [th[t] EXCEPT !.pc = "emit_loop", !.copy = SinkValues(sinks),
                          !.j = 1])
  /\ UNCHANGED <<lock, records, config, sinks, sinkObj, next_sink_id,
                 closed, cleared, ncalls>>

\* _emit: sinks = list(self._sinks.values()), and the lock released
EmitCopy(t) ==
  /\ th[t].pc = "emit_crit"
  /\ lock' = Free
  /\ Set(t, [th[t] EXCEPT !.pc = "emit_loop", !.copy = SinkValues(sinks),
                          !.j = 1])
  /\ UNCHANGED <<records, config, sinks, sinkObj, next_sink_id,
                 closed, cleared, ncalls>>

\* a sink failure that escapes _emit
OnSinkErrorRaising(r) == [r EXCEPT !.pc = "done", !.err = <<"SinkError">>]

\* _emit: except Exception: pass, and on to the next sink
OnSinkError(r) == [r EXCEPT !.j = @ + 1]

\* The last character of a rendered text: "s", of the unit ("ms" or "s")
\* that ends an event line and the grand-total row, or ")" of "(no data)".
LastChar(m) == IF m.kind = "summary" /\ m.nodata THEN 41 ELSE 115

\* message.endswith("\n")
EndsWithNewline(m) == LastChar(m) = 10

\* What the sink writes after the message. _StreamSink and _FileSink write
\* "\n" unless the message ends with one; a callable target is registered
\* as it is and is called with the message alone.
SinkTail(o, m) ==
  IF o.type = "callable" THEN <<>>
  ELSE IF EndsWithNewline(m) THEN <<>> ELSE <<10>>

\* sink(message) raises: the callable or the stream's write raises, or the
\* file handle has been closed
SinkRaises(o) == o.fails \/ (o.type = "file" /\ o.closes > 0)

\* _emit: sink(message) for the next sink of the copy
EmitWrite(t) ==
  /\ th[t].pc = "emit_loop"
  /\ th[t].j <= Len(th[t].copy)
  /\ LET id == th[t].copy[th[t].j]
         r == [th[t] EXCEPT !.called = Append(@, id)]
     IN IF SinkRaises(sinkObj[id])
        THEN Set(t, OnSinkError(r))
        ELSE Set(t, [r EXCEPT
               !.j = @ + 1,
               !.wrote = Append(@, id),
               !.tails = Append(@, SinkTail(sinkObj[id], th[t].msg[1]))])
  /\ UNCHANGED <<lock, records, config, sinks, sinkObj, next_sink_id,
                 closed, cleared, ncalls>>

\* _emit returns: __exit__ then returns False, summary() goes on to reset
EmitDone(t) ==
  /\ th[t].pc = "emit_loop"
  /\ th[t].j > Len(th[t].copy)
  /\ IF th[t].op = "scope"
     THEN Set(t, [th[t] EXCEPT !.pc = "done", !.err = ExitReturn(th[t].exc)])
     ELSE Set(t, [th[t] EXCEPT !.pc = "sum_reset"])
  /\ UNCHANGED <<lock, records, config, sinks, sinkObj, next_sink_id,
                 closed, cleared, ncalls>>

\* the call has returned or raised; the thread is free for its next call
Finish(t) ==
  /\ th[t].pc = "done"
  /\ Set(t, Idle)
  /\ closed' = IF th[t].op = "scope"
               THEN [closed EXCEPT ![th[t].task] = @ + 1] ELSE closed
  /\ UNCHANGED <<lock, records, config, sinks, sinkObj, next_sink_id,
                 cleared, ncalls>>

\* ---------------------------------------------------------------- configure
NoArgs ==
  [emit_each |-> <<>>, time_unit |-> <<>>, include_timestamp |-> <<>>,
   autoname_file_if_dir |-> <<>>]

\* the configure() calls made: configure(emit_each=True),
\* configure(time_unit="s"), configure(emit_each=True, time_unit="us"),
\* configure(emit_each=False, time_unit="ms"),
\* configure(include_timestamp=False, autoname_file_if_dir=False)
ConfigureArgs ==
  { [NoArgs EXCEPT !.emit_each = <<TRUE>>],
    [NoArgs EXCEPT !.time_unit = <<"s">>],
    [NoArgs EXCEPT !.emit_each = <<TRUE>>, !.time_unit = <<"us">>],
    [NoArgs EXCEPT !.emit_each = <<FALSE>>, !.time_unit = <<"ms">>],
    [NoArgs EXCEPT !.include_timestamp = <<FALSE>>,
                   !.autoname_file_if_dir = <<FALSE>>] }

\* configure(): with self._lock
ConfigureCall(t, a) ==
  /\ IsMain(t)
  /\ th[t].pc = "idle"
  /\ ncalls < MaxOps
  /\ lock = Free
  /\ lock' = {t}
  /\ ncalls' = ncalls + 1
  /\ Set(t, [Idle EXCEPT !.pc = "cfg_crit", !.op = "configure",
                         !.args = <<a>>])
  /\ UNCHANGED <<records, config, sinks, sinkObj, next_sink_id,
                 closed, cleared>>

\* configure(): the assignments, the lock released, self returned or
\* ValueError raised
ConfigureBody(t) ==
  /\ th[t].pc = "cfg_crit"
  /\ config' = ConfigureApply(config, th[t].args[1])
  /\ lock' = Free
  /\ Set(t, [th[t] EXCEPT
       !.pc = "done",
       !.err = IF ConfigureRaises(th[t].args[1])
               THEN <<"ValueError">> ELSE <<>>])
  /\ UNCHANGED <<records, sinks, sinkObj, next_sink_id,
                 closed, cleared, ncalls>>

\* --------------------------------------------------------------- add, remove
\* add(): the target is wrapped as a sink, then with self._lock
AddCall(t, target) ==
  /\ th[t].pc = "idle"
  /\ ncalls < MaxOps
  /\ lock = Free
  /\ lock' = {t}
  /\ ncalls' = ncalls + 1
  /\ Set(t, [Idle EXCEPT !.pc = "add_crit", !.op = "add",
                         !.args = <<target>>])
  /\ UNCHANGED <<records, config, sinks, sinkObj, next_sink_id,
                 closed, cleared>>

\* an id that is one more than the number of sinks registered
NewSinkIdByCount(next, registered) == Len(registered) + 1

\* sink_id = self._next_sink_id
NewSinkId(next, registered) == next

\* add(): the next id is taken and the sink registered under it
AddRegister(t) ==
  /\ th[t].pc = "add_crit"
  /\ sinks' = Append(sinks, NewSinkId(next_sink_id, sinks))
  /\ sinkObj' = Append(sinkObj, th[t].args[1])
  /\ next_sink_id' = next_sink_id + 1
  /\ lock' = Free
  /\ Set(t, [th[t] EXCEPT !.pc = "done",
                          !.ret = <<NewSinkId(next_sink_id, sinks)>>])
  /\ UNCHANGED <<records, config, closed, cleared, ncalls>>

\* remove(): with self._lock; sid is <<>> (None) or <<id>>
RemoveCall(t, sid) ==
  /\ th[t].pc = "idle"
  /\ ncalls < MaxOps
  /\ lock = Free
  /\ lock' = {t}
  /\ ncalls' = ncalls + 1
  /\ Set(t, [Idle EXCEPT !.pc = "rem_crit", !.op = "remove",
                         !.args = <<sid>>])
  /\ UNCHANGED <<records, config, sinks, sinkObj, next_sink_id,
                 closed, cleared>>

\* the sinks left after popping ids
PopSinks(registered, ids) == SelectSeq(registered, LAMBDA s : s \notin ids)

\* sid is a key of _sinks
Registered(registered, sid) ==
  \E k \in 1..Len(registered) : registered[k] = sid

\* closer(), which is _FileSink.close: self._fh.close() in a try whose
\* except passes; the sink has had its closer called once more
CloseFile(o) == [o EXCEPT !.closes = @ + 1]

\* a loop that a closer's failure ends, the error going to the caller
RECURSIVE RemoveLoopRaising(_, _, _)
RemoveLoopRaising(ids, registered, objs) ==
  IF ids = <<>> THEN [sinks |-> registered, objs |-> objs, err |-> <<>>]
  ELSE LET sid == Head(ids)
           closer == Registered(registered, sid) /\ objs[sid].type = "file"
           closedObjs == IF closer THEN [objs EXCEPT ![sid] = CloseFile(@)]
                         ELSE objs
       IN IF closer /\ objs[sid].closefails
          THEN [sinks |-> PopSinks(registered, {sid}), objs |-> closedObjs,
                err |-> <<"OSError">>]
          ELSE RemoveLoopRaising(Tail(ids), PopSinks(registered, {sid}),
                                 closedObjs)

\* remove(): for sid in ids: the sink and its meta are popped (a missing id
\* pops None and an empty meta); the meta's closer, which only a file sink
\* has, is called in a try whose except passes
RECURSIVE RemoveLoop(_, _, _)
RemoveLoop(ids, registered, objs) ==
  IF ids = <<>> THEN [sinks |-> registered, objs |-> objs, err |-> <<>>]
  ELSE LET sid == Head(ids)
           closer == Registered(registered, sid) /\ objs[sid].type = "file"
       IN RemoveLoop(Tail(ids), PopSinks(registered, {sid}),
                     IF closer THEN [objs EXCEPT ![sid] = CloseFile(@)]
                     ELSE objs)

\* remove(): ids = list(self._sinks.keys()) or [sink_id], the loop over
\* them, and the lock released
RemoveBody(t) ==
  /\ th[t].pc = "rem_crit"
  /\ LET ids == IF th[t].args[1] = <<>> THEN sinks ELSE th[t].args[1]
         out == RemoveLoop(ids, sinks, sinkObj)
     IN /\ sinks' = out.sinks
        /\ sinkObj' = out.objs
        /\ Set(t, [th[t] EXCEPT !.pc = "done", !.err = out.err])
  /\ lock' = Free
  /\ UNCHANGED <<records, config, next_sink_id, closed, cleared, ncalls>>

\* -------------------------------------------------------------------- clear
\* A snapshot made by list(self._records.items()) holds the list objects
\* themselves. clear() empties the dictionary and leaves those objects as
\* they are, out of reach of later appends: a snapshot entry is live (it
\* reads the dictionary's list) until a clear() detaches it, and from then
\* on holds the list as it was.
Detach(items, recs) ==
  [k \in 1..Len(items) |->
     IF items[k].live
     THEN [task |-> items[k].task, live |-> FALSE,
           durs |-> DursOf(recs, items[k].task)]
     ELSE items[k]]

\* clear(): with self._lock
ClearCall(t) ==
  /\ IsMain(t)
  /\ th[t].pc = "idle"
  /\ ncalls < MaxOps
  /\ lock = Free
  /\ lock' = {t}
  /\ ncalls' = ncalls + 1
  /\ Set(t, [Idle EXCEPT !.pc = "clr_crit", !.op = "clear"])
  /\ UNCHANGED <<records, config, sinks, sinkObj, next_sink_id,
                 closed, cleared>>

\* clear(): self._records.clear(), the lock released; summary(reset=True)
\* then returns the rendered text
ClearBody(t) ==
  /\ th[t].pc = "clr_crit"
  /\ records' = <<>>
  /\ cleared' = TRUE
  /\ lock' = Free
  /\ th' = [u \in Threads |->
              IF u = t
              THEN [th[t] EXCEPT !.pc = "done",
                                 !.ret = IF th[t].op = "summary"
                                         THEN th[t].msg ELSE <<>>]
              ELSE [th[u] EXCEPT !.items = Detach(@, records)]]
  /\ UNCHANGED <<config, sinks, sinkObj, next_sink_id, closed, ncalls>>

\* ------------------------------------------------------------------ summary
\* the list a snapshot entry refers to, as it is now
Durations(item) == IF item.live THEN DursOf(records, item.task) ELSE item.durs

\* summary() -> _compute_stats: with self._lock
SummaryCall(t) ==
  /\ IsMain(t)
  /\ th[t].pc = "idle"
  /\ ncalls < MaxOps
  /\ lock = Free
  /\ lock' = {t}
  /\ ncalls' = ncalls + 1
  /\ Set(t, [Idle EXCEPT !.pc = "cs_crit", !.op = "summary"])
  /\ UNCHANGED <<records, config, sinks, sinkObj, next_sink_id,
                 closed, cleared>>

\* where the loop of _compute_stats goes after item k
LoopPc(items, k) == IF k <= Len(items) THEN "cs_sum" ELSE "sum_sort"

\* _compute_stats: items = list(self._records.items()), the lock released
ComputeSnapshot(t) ==
  /\ th[t].pc = "cs_crit"
  /\ lock' = Free
  /\ LET items == [k \in 1..Len(records) |->
                     [task |-> records[k].task, live |-> TRUE, durs |-> <<>>]]
     IN Set(t, [th[t] EXCEPT !.pc = LoopPc(items, 1), !.items = items,
                             !.i = 1, !.computed = <<>>])
  /\ UNCHANGED <<records, config, sinks, sinkObj, next_sink_id,
                 closed, cleared, ncalls>>

\* _compute_stats: if not durations: continue; total = float(sum(durations))
\* (a list of the dictionary is never empty and never shrinks, so the test
\* and the sum see the same answer to "is it empty")
ComputeSum(t) ==
  /\ th[t].pc = "cs_sum"
  /\ LET d == Durations(th[t].items[th[t].i]) IN
       IF d = <<>>
       THEN Set(t, [th[t] EXCEPT !.i = @ + 1,
                                 !.pc = LoopPc(th[t].items, th[t].i + 1)])
       ELSE Set(t, [th[t] EXCEPT !.pc = "cs_len", !.part.total = SumSeq(d)])
  /\ UNCHANGED <<lock, records, config, sinks, sinkObj, next_sink_id,
                 closed, cleared, ncalls>>

\* _compute_stats: count = int(len(durations)); avg = total / count
ComputeLen(t) ==
  /\ th[t].pc = "cs_len"
  /\ LET d == Durations(th[t].items[th[t].i]) IN
       Set(t, [th[t] EXCEPT !.pc = "cs_min", !.part.count = Len(d),
                 !.part.avg = <<Quot(th[t].part.total, Len(d))>>])
  /\ UNCHANGED <<lock, records, config, sinks, sinkObj, next_sink_id,
                 closed, cleared, ncalls>>

\* _compute_stats: mn = float(min(durations))
ComputeMin(t) ==
  /\ th[t].pc = "cs_min"
  /\ LET d == Durations(th[t].items[th[t].i]) IN
       Set(t, [th[t] EXCEPT !.pc = "cs_max", !.part.mn = MinSeq(d)])
  /\ UNCHANGED <<lock, records, config, sinks, sinkObj, next_sink_id,
                 closed, cleared, ncalls>>

\* _compute_stats: mx = float(max(durations))
ComputeMax(t) ==
  /\ th[t].pc = "cs_max"
  /\ LET d == Durations(th[t].items[th[t].i]) IN
       Set(t, [th[t] EXCEPT !.pc = "cs_last", !.part.mx = MaxSeq(d)])
  /\ UNCHANGED <<lock, records, config, sinks, sinkObj, next_sink_id,
                 closed, cleared, ncalls>>

\* a TaskStats whose last is the first sample
MakeStatsFirst(task, part, d) ==
  [task |-> task, count |-> part.count, total_s |-> part.total,
   avg_s |-> part.avg[1], min_s |-> part.mn, max_s |-> part.mx,
   last_s |-> d[1]]

\* TaskStats(task, count, total, avg, mn, mx, last = durations[-1])
MakeStats(task, part, d) ==
  [task |-> task, count |-> part.count, total_s |-> part.total,
   avg_s |-> part.avg[1], min_s |-> part.mn, max_s |-> part.mx,
   last_s |-> d[Len(d)]]

\* _compute_stats: last = float(durations[-1]); out.append(TaskStats(...))
ComputeLast(t) ==
  /\ th[t].pc = "cs_last"
  /\ LET d == Durations(th[t].items[th[t].i]) IN
       Set(t, [th[t] EXCEPT
         !.pc = LoopPc(th[t].items, th[t].i + 1),
         !.i = @ + 1,
         !.part = Idle.part,
         !.computed = Append(@, MakeStats(th[t].items[th[t].i].task,
                                          th[t].part, d))])
  /\ UNCHANGED <<lock, records, config, sinks, sinkObj, next_sink_id,
                 closed, cleared, ncalls>>

SortByInputs == SortKeys \cup {"name"}
LimitInputs == {<<>>, <<-1>>, <<1>>, <<2>>}

\* stats.sort(...); stats = stats[: max(0, int(limit))];
\* rendered = self._render_summary(stats), sorting by key
SortAndRender(r, c, a, key) ==
  LET shown == LimitStats(SortStats(r.computed, key, a.descending), a.limit)
  IN [r EXCEPT !.pc = "emit_lock", !.args = <<a>>, !.reset = a.reset,
               !.stats = shown, !.msg = <<RenderSummary(c, shown)>>]

\* an unknown sort_by taken as the default key
AfterComputeDefaulting(r, c, a) ==
  SortAndRender(r, c, a, IF a.sort_by \in SortKeys THEN a.sort_by ELSE "total")

\* summary() after _compute_stats: if sort_by not in key_funcs: raise
\* ValueError; otherwise sort, cut and render
AfterCompute(r, c, a) ==
  IF a.sort_by \notin SortKeys
  THEN [r EXCEPT !.pc = "done", !.args = <<a>>, !.err = <<"ValueError">>]
  ELSE SortAndRender(r, c, a, a.sort_by)

\* summary() from the return of _compute_stats to its call of _emit; the
\* report is rendered from the configuration as it is now
SummarySort(t, sort_by, descending, limit, reset) ==
  /\ th[t].pc = "sum_sort"
  /\ Set(t, AfterCompute(th[t], config,
            [sort_by |-> sort_by, descending |-> descending,
             limit |-> limit, reset |-> reset]))
  /\ UNCHANGED <<lock, records, config, sinks, sinkObj, next_sink_id,
                 closed, cleared, ncalls>>

\* summary() after _emit: if reset: self.clear(), which takes the lock
SummaryReset(t) ==
  /\ th[t].pc = "sum_reset"
  /\ th[t].reset
  /\ lock = Free
  /\ lock' = {t}
  /\ Set(t, [th[t] EXCEPT !.pc = "clr_crit"])
  /\ UNCHANGED <<records, config, sinks, sinkObj, next_sink_id,
                 closed, cleared, ncalls>>

\* summary() after _emit, reset not asked for: return rendered
SummaryReturn(t) ==
  /\ th[t].pc = "sum_reset"
  /\ ~th[t].reset
  /\ Set(t, [th[t] EXCEPT !.pc = "done", !.ret = th[t].msg])
  /\ UNCHANGED <<lock, records, config, sinks, sinkObj, next_sink_id,
                 closed, cleared, ncalls>>

\* ---------------------------------------------------------------- behaviour
\* time.perf_counter(): any reading at any time, so that a second reading
\* below the first (the case max(0.0, ...) is there for) is among the inputs
ClockReadings == 0..MaxClock
BodyOutcomes == {<<>>, <<"RuntimeError">>}

\* remove() is given None, the id of a sink made so far, or an id that no
\* sink has had yet
RemoveInputs == {<<>>} \cup {<<k>> : k \in 1..next_sink_id}

\* one step of thread t, its inputs drawn from the given sets; sinkops
\* says whether the thread is one that calls add() and remove()
Step(t, names, clock, outs, cfgs, tgts, sorts, dirs, limits, sinkops) ==
  \/ \E name \in names : Call(t, name)
  \/ \E now \in clock : Enter(t, now)
  \/ \E now \in clock, exc \in outs : Exit(t, now, exc)
  \/ RecordAcquire(t)
  \/ RecordAppend(t)
  \/ RecordEmitEach(t)
  \/ EmitAcquire(t)
  \/ EmitCopy(t)
  \/ EmitWrite(t)
  \/ EmitDone(t)
  \/ Finish(t)
  \/ \E a \in cfgs : ConfigureCall(t, a)
  \/ ConfigureBody(t)
  \/ \E target \in (IF sinkops THEN tgts ELSE {}) : AddCall(t, target)
  \/ AddRegister(t)
  \/ \E sid \in (IF sinkops THEN RemoveInputs ELSE {}) : RemoveCall(t, sid)
  \/ RemoveBody(t)
  \/ ClearCall(t)
  \/ ClearBody(t)
  \/ SummaryCall(t)
  \/ ComputeSnapshot(t)
  \/ ComputeSum(t)
  \/ ComputeLen(t)
  \/ ComputeMin(t)
  \/ ComputeMax(t)
  \/ ComputeLast(t)
  \/ \E sort_by \in sorts, descending \in dirs,
        limit \in limits, reset \in BOOLEAN :
       SummarySort(t, sort_by, descending, limit, reset)
  \/ SummaryReset(t)
  \/ SummaryReturn(t)

\* The threads run together, timing scopes of one task whose bodies end
\* normally. The main thread calls summary() with its default sort_by,
\* descending and limit, and configure() to switch emit_each.
ConcNames == { <<97>> }
ConcReadings == {0, 1}
ConcConfigure ==
  { [NoArgs EXCEPT !.emit_each = <<TRUE>>],
    [NoArgs EXCEPT !.emit_each = <<FALSE>>] }
ConcTargets == { Sink("callable", FALSE, FALSE),
                 Sink("callable", TRUE, FALSE) }

Next ==
  \E t \in Threads :
    Step(t, ConcNames, ConcReadings, {<<>>}, ConcConfigure, ConcTargets,
         {"total"}, {TRUE}, {<<>>}, IsMain(t))

Spec == Init /\ [][Next]_vars

\* The main thread alone, with every input.
SeqNext ==
  \E t \in {1} :
    Step(t, NameInputs, ClockReadings, BodyOutcomes, ConfigureArgs,
         SinkTargets,
         SortByInputs, BOOLEAN, LimitInputs, TRUE)

SeqSpec == Init /\ [][SeqNext]_vars

\* Every thread adds and removes sinks: files and a callable, next to the
\* stream that is sink 1. The main thread also makes the other calls, as
\* above; its scopes take no time and its configure() switches emit_each on.
SinkNext ==
  \E t \in Threads :
    Step(t, IF IsMain(t) THEN ConcNames ELSE {}, {0}, {<<>>},
         {[NoArgs EXCEPT !.emit_each = <<TRUE>>]},
         FileTargets \cup {Sink("callable", FALSE, FALSE)},
         {"total"}, {TRUE}, {<<>>}, TRUE)

SinkSpec == Init /\ [][SinkNext]_vars

\* ------------------------------------------------------------------- claims
\* the states of a scope after its sample has been appended
AfterAppend == {"rec_emit", "emit_lock", "emit_crit", "emit_loop", "done"}

\* the states of a call after its _emit has returned
AfterEmit == {"sum_reset", "clr_crit", "done"}

\* the sinks of a copy whose call returns normally
Accepting(copy) == SelectSeq(copy, LAMBDA id : ~sinkObj[id].fails)

\* s is the statistics of the samples d of task
StatsOf(s, task, d) ==
  /\ s.task = task
  /\ s.count = Len(d)
  /\ s.total_s = SumSeq(d)
  /\ s.avg_s.n * s.count = s.total_s * s.avg_s.d
  /\ \E k \in 1..Len(d) : s.min_s = d[k]
  /\ \A k \in 1..Len(d) : s.min_s <= d[k]
  /\ \E k \in 1..Len(d) : s.max_s = d[k]
  /\ \A k \in 1..Len(d) : s.max_s >= d[k]
  /\ s.last_s = d[Len(d)]

\* C1: when _compute_stats has returned, there is one TaskStats per task of
\* the recorder, in the recorder's order, and each has count = the number
\* of the task's samples, total = their sum, avg = total / count, min and
\* max their exact extrema and last the sample appended last.
C1_StatsExact ==
  \A t \in Threads :
    (th[t].op = "summary" /\ th[t].pc = "sum_sort") =>
      /\ Len(th[t].computed) = Len(records)
      /\ \A k \in 1..Len(records) :
           StatsOf(th[t].computed[k], records[k].task, records[k].durs)

\* C1 witness: stats computed for a task with two samples that differ
C1_Witness ==
  \E t \in Threads :
    /\ th[t].op = "summary" /\ th[t].pc = "sum_sort"
    /\ \E k \in 1..Len(th[t].computed) :
         /\ th[t].computed[k].count = 2
         /\ th[t].computed[k].min_s < th[t].computed[k].max_s
         /\ th[t].computed[k].last_s # records[k].durs[1]

\* C2: as long as no clear() has run, each task has exactly as many samples
\* as scopes of that task have got past their append, whatever the
\* interleaving: one per scope, none lost, none twice.
C2_OneSamplePerScope ==
  ~cleared =>
    \A k \in TaskNames :
      Len(DursOf(records, k)) =
        closed[k] + Cardinality({t \in Threads :
                                   /\ th[t].op = "scope"
                                   /\ th[t].task = k
                                   /\ th[t].pc \in AfterAppend})

\* C2 witness: two scopes of one task, open at the same time in two threads,
\* have both closed, and the task has two samples
C2_Witness ==
  \E t, u \in Threads :
    /\ t # u
    /\ th[t].op = "scope" /\ th[t].pc = "done"
    /\ th[u].op = "scope" /\ th[u].pc = "done"
    /\ th[t].task = th[u].task
    /\ ~cleared
    /\ Len(DursOf(records, th[t].task)) = 2

\* C3: when _emit has returned, every sink of the copy whose write does not
\* fail has been given the line, the failing ones before or after it
\* notwithstanding, and no sink failure has reached the caller: summary()
\* has raised nothing and the scope raises only what its body raised.
C3_SinkFailureIsolated ==
  \A t \in Threads :
    (th[t].msg # <<>> /\ th[t].pc \in AfterEmit) =>
      /\ th[t].wrote = Accepting(th[t].copy)
      /\ th[t].op = "summary" => th[t].err = <<>>
      /\ th[t].op = "scope" => th[t].err = th[t].exc

\* C3 witness: summary() has broadcast to a working sink, a failing sink and
\* another working sink, in that order, and both working sinks got the line
C3_Witness ==
  \E t \in Threads :
    /\ th[t].op = "summary" /\ th[t].pc = "done" /\ th[t].msg # <<>>
    /\ Len(th[t].copy) = 3
    /\ ~sinkObj[th[t].copy[1]].fails
    /\ sinkObj[th[t].copy[2]].fails
    /\ ~sinkObj[th[t].copy[3]].fails
    /\ th[t].wrote = <<th[t].copy[1], th[t].copy[3]>>

\* C4: a scope that has returned from __exit__ has appended exactly one
\* sample, the elapsed time it measured, which is not negative, and raises
\* exactly what its body raised (nothing when the body ended normally), also
\* when the event line was broadcast and a sink failed.
C4_ScopeRecordsAndPropagates ==
  \A t \in Threads :
    (th[t].op = "scope" /\ th[t].pc = "done") =>
      /\ th[t].appended = 1
      /\ th[t].elapsed >= 0
      /\ th[t].err = th[t].exc
      /\ LET d == DursOf(records, th[t].task) IN
           /\ d # <<>>
           /\ d[Len(d)] = th[t].elapsed
           /\ ~cleared => Len(d) = closed[th[t].task] + 1

\* C4 witness: a scope whose body raised has closed with emit_each on and a
\* failing sink in the broadcast, the second clock reading below the first
C4_Witness ==
  \E t \in Threads :
    /\ th[t].op = "scope" /\ th[t].pc = "done"
    /\ th[t].exc = <<"RuntimeError">>
    /\ th[t].err = <<"RuntimeError">>
    /\ th[t].msg # <<>>
    /\ \E k \in 1..Len(th[t].copy) : sinkObj[th[t].copy[k]].fails
    /\ th[t].t0 = <<1>> /\ th[t].elapsed = 0

\* summary() has rendered its report and not yet broadcast it
Rendered(t) == th[t].op = "summary" /\ th[t].pc = "emit_lock"

\* summary() has rendered after a clear() that nothing was recorded after
RenderedAfterClear(t) == Rendered(t) /\ cleared /\ records = <<>>

\* C5 (as amended): clear() followed by summary(), nothing recorded in
\* between, yields the "(no data)" report: no data row and no grand-total
\* row at all.
C5_NoDataAfterClear ==
  \A t \in Threads :
    RenderedAfterClear(t) =>
      /\ th[t].msg[1].nodata
      /\ th[t].msg[1].rows = <<>>
      /\ th[t].msg[1].footer = <<>>

\* C5 (as claimed): clear() followed by summary() yields a "(no data)"
\* report with zero data rows and a grand total of zero.
C5_NoDataZeroTotal ==
  \A t \in Threads :
    RenderedAfterClear(t) =>
      /\ th[t].msg[1].nodata
      /\ th[t].msg[1].rows = <<>>
      /\ th[t].msg[1].footer = <<FmtTime(config.time_unit, Whole(0))>>

\* C5 witness: a scope was recorded, clear() ran, and summary() has rendered
C5_Witness ==
  \E t \in Threads :
    /\ RenderedAfterClear(t)
    /\ \E k \in TaskNames : closed[k] > 0

\* the number of rows summary(limit) shows of total tasks
RowsShown(limit, total) ==
  IF limit = <<>> THEN total
  ELSE IF limit[1] <= 0 THEN 0
  ELSE IF limit[1] >= total THEN total
  ELSE limit[1]

RECURSIVE RecordedTotal(_)
RecordedTotal(shown) ==
  IF shown = <<>> THEN 0
  ELSE SumSeq(DursOf(records, Head(shown).task)) + RecordedTotal(Tail(shown))

RECURSIVE PosOf(_, _, _)
PosOf(items, task, k) ==
  IF k > Len(items) THEN 0
  ELSE IF items[k].task = task THEN k
  ELSE PosOf(items, task, k + 1)

\* C7: the stats summary() shows are ordered by the sort key in the
\* direction asked for, and two tasks with equal keys stay in the order in
\* which the tasks were first recorded, ascending and descending alike.
C7_SortedAndStable ==
  \A t \in Threads :
    Rendered(t) =>
      LET a == th[t].args[1]
          shown == th[t].stats
      IN \A i, j \in 1..Len(shown) :
           i < j =>
             /\ ~Before(a.sort_by, a.descending, shown[j], shown[i])
             /\ ~Before(a.sort_by, a.descending, shown[i], shown[j]) =>
                  PosOf(th[t].items, shown[i].task, 1)
                    < PosOf(th[t].items, shown[j].task, 1)

\* C7 witness: a descending sort of two tasks with equal keys
C7_Witness ==
  \E t \in Threads :
    /\ Rendered(t)
    /\ th[t].args[1].descending
    /\ Len(th[t].stats) = 2
    /\ ~Before(th[t].args[1].sort_by, TRUE, th[t].stats[1], th[t].stats[2])
    /\ ~Before(th[t].args[1].sort_by, TRUE, th[t].stats[2], th[t].stats[1])

\* summary() was called with a sort_by that is no sort key
BadSortBy(t) ==
  th[t].op = "summary" /\ th[t].args # <<>>
    /\ th[t].args[1].sort_by \notin SortKeys

\* the recorder is as _compute_stats saw it
RecordsAsComputed(t) ==
  /\ Len(records) = Len(th[t].computed)
  /\ \A k \in 1..Len(records) :
       StatsOf(th[t].computed[k], records[k].task, records[k].durs)

\* C8 (as amended): summary() with an unknown sort_by raises ValueError
\* before anything is sorted, rendered or broadcast: no line reaches a sink
\* and the samples stay, reset=True or not. (The stats have been computed by
\* then.)
C8_BadSortKeyRejected ==
  \A t \in Threads :
    BadSortBy(t) =>
      /\ th[t].pc = "done"
      /\ th[t].err = <<"ValueError">>
      /\ th[t].msg = <<>>
      /\ th[t].copy = <<>> /\ th[t].wrote = <<>>
      /\ RecordsAsComputed(t)

\* C8 (as claimed): the same, and no stats have been computed when the
\* error is raised.
C8_BadSortKeyBeforeStats ==
  \A t \in Threads :
    BadSortBy(t) =>
      /\ th[t].pc = "done"
      /\ th[t].err = <<"ValueError">>
      /\ th[t].msg = <<>>
      /\ th[t].copy = <<>> /\ th[t].wrote = <<>>
      /\ RecordsAsComputed(t)
      /\ th[t].computed = <<>>

\* C8 witness: summary(sort_by="name", reset=True) has raised with samples
\* in the recorder
C8_Witness ==
  \E t \in Threads :
    /\ BadSortBy(t)
    /\ th[t].args[1].reset
    /\ th[t].err = <<"ValueError">>
    /\ records # <<>>

\* configure() is about to make its assignments
Configuring(t) == th[t].op = "configure" /\ th[t].pc = "cfg_crit"

\* C9: a configure() call with an unrecognized time_unit raises and leaves
\* every configuration field as it was.
C9_ConfigureAtomic ==
  [][\A t \in Threads :
       (Configuring(t) /\ ConfigureRaises(th[t].args[1])) =>
         /\ th'[t].err = <<"ValueError">>
         /\ config' = config]_vars

ConfigFields ==
  {"emit_each", "time_unit", "include_timestamp", "autoname_file_if_dir"}

\* C10: a configure() call that succeeds sets the fields it was given and
\* leaves the other fields, the recorded samples and the registered sinks
\* as they were.
C10_ConfigureFrame ==
  [][\A t \in Threads :
       (Configuring(t) /\ ~ConfigureRaises(th[t].args[1])) =>
         /\ th'[t].err = <<>>
         /\ \A f \in ConfigFields :
              config'[f] = IF th[t].args[1][f] # <<>>
                           THEN th[t].args[1][f][1] ELSE config[f]
         /\ records' = records
         /\ sinks' = sinks /\ sinkObj' = sinkObj
         /\ next_sink_id' = next_sink_id]_vars

\* C10 witness: with a sample recorded and emit_each switched on,
\* configure(time_unit="s") has returned: the unit is "s", emit_each is
\* still on, the sample is still there
C10_Witness ==
  \E t \in Threads :
    /\ th[t].op = "configure" /\ th[t].pc = "done" /\ th[t].err = <<>>
    /\ th[t].args[1].time_unit = <<"s">>
    /\ th[t].args[1].emit_each = <<>>
    /\ config.time_unit = "s"
    /\ config.emit_each
    /\ records # <<>>

\* the argument is no str, or a str of nothing but whitespace ("" included)
InvalidName(name) == ~IsStr(name) \/ \A k \in 1..Len(name) : IsSpace(name[k])

\* s is name without the whitespace around it
IsTrimOf(s, name) ==
  /\ s # <<>> /\ ~IsSpace(s[1]) /\ ~IsSpace(s[Len(s)])
  /\ \E i \in 1..Len(name) :
       /\ SubSeq(name, i, i + Len(s) - 1) = s
       /\ \A k \in 1..Len(name) :
            (k < i \/ k > i + Len(s) - 1) => IsSpace(name[k])

\* thread t makes the call tracker(name) in this step
Calls(t) == th[t].pc = "idle" /\ th'[t].op \in {"call", "scope"}

\* thread t appends its scope's sample in this step
Appends(t) == th[t].pc = "rec_crit" /\ th'[t].pc # "rec_crit"

\* C11: tracker(name) with a name that is no str, is empty or is whitespace
\* only raises ValueError at once: no clock has been read, no task key has
\* been made and no sample appended. A valid name makes a scope whose task
\* is the name without its surrounding whitespace, and the scope's sample is
\* appended to that task's list: names that differ only in the whitespace
\* around them accumulate under one task.
C11_NameValidated ==
  [][\A t \in Threads :
       /\ Calls(t) =>
            IF InvalidName(th'[t].args[1])
            THEN /\ th'[t].pc = "done"
                 /\ th'[t].err = <<"ValueError">>
                 /\ th'[t].t0 = <<>>
                 /\ records' = records
            ELSE /\ th'[t].pc = "ctx"
                 /\ th'[t].t0 = <<>>
                 /\ IsTrimOf(th'[t].task, th'[t].args[1])
       /\ Appends(t) =>
            \E s \in TaskNames :
              /\ IsTrimOf(s, th[t].args[1])
              /\ DursOf(records', s) = Append(DursOf(records, s), th[t].elapsed)
              /\ Len(records') = Len(records)
                                + (IF DursOf(records, s) = <<>> THEN 1 ELSE 0)]_vars

\* C11 witness: after two scopes whose names strip to "a", which left one
\* task "a" with two samples, tracker(" ") has raised and no task was added
C11_Witness ==
  \E t \in Threads :
    /\ th[t].op = "call" /\ th[t].pc = "done"
    /\ th[t].args = << <<32>> >>
    /\ th[t].err = <<"ValueError">>
    /\ closed[<<97>>] = 2
    /\ Len(records) = 1
    /\ records[1].task = <<97>> /\ Len(records[1].durs) = 2

\* thread t's add() registers its sink and returns in this step
AddReturns(t) == th[t].pc = "add_crit" /\ th'[t].pc = "done"

\* thread t's remove() pops, closes and returns in this step
Removes(t) == th[t].pc = "rem_crit" /\ th'[t].pc = "done"

\* C12: sinkObj holds one object for every add() made so far. Each add()
\* returns the number of sinks made before it plus one, whatever has been
\* removed in between (by remove(id) or remove(None)) and whichever thread
\* adds: the ids returned are 1, 2, 3, ... in the order of the adds, each
\* above every id returned before, above every id registered and above every
\* id another add() is about to hand to its caller. remove(id) raises
\* nothing and takes that id alone out of the registry; when the id is not
\* registered the registry and every sink stay as they are.
C12_IdsNeverReused ==
  [][\A t \in Threads :
       /\ AddReturns(t) =>
            LET id == th'[t].ret[1] IN
              /\ id = Len(sinkObj) + 1
              /\ Len(sinkObj') = id
              /\ \A k \in 1..Len(sinks) : sinks[k] < id
              /\ \A u \in Threads :
                   (th[u].op = "add" /\ th[u].ret # <<>>) => th[u].ret[1] < id
              /\ sinks' = Append(sinks, id)
       /\ (Removes(t) /\ th[t].args[1] # <<>>) =>
            LET sid == th[t].args[1][1] IN
              /\ th'[t].err = <<>>
              /\ sinks' = SelectSeq(sinks, LAMBDA x : x # sid)
              /\ ~Registered(sinks, sid) =>
                   (sinks' = sinks /\ sinkObj' = sinkObj)]_vars

\* C12 witness: an add() has returned 3 and sink 3 is the only one
\* registered: sinks 1 and 2 were removed before it, and their ids were not
\* given out again
C12_Witness ==
  \E t \in Threads :
    /\ th[t].op = "add" /\ th[t].pc = "done"
    /\ th[t].ret = <<3>>
    /\ sinks = <<3>>

\* the number of newlines that end a line delivered as message then tail
NewlinesAtEnd(m, tail) == (IF EndsWithNewline(m) THEN 1 ELSE 0) + Len(tail)

\* C13: every line a broadcast has delivered to a sink, whatever the kind of
\* the sink, ends with exactly one newline.
C13_NewlineOnce ==
  \A t \in Threads :
    \A k \in 1..Len(th[t].tails) :
      NewlinesAtEnd(th[t].msg[1], th[t].tails[k]) = 1

\* C14: each TaskStats _compute_stats has produced is the statistics of the
\* task's list as it was at one instant: the lists only grow by appends, so
\* of some prefix (not empty) of the list the snapshot entry refers to.
C14_StatsOfOneInstant ==
  \A t \in Threads :
    (th[t].op = "summary" /\ th[t].pc = "sum_sort") =>
      \A k \in 1..Len(th[t].computed) :
        LET task == th[t].computed[k].task
            d == Durations(th[t].items[PosOf(th[t].items, task, 1)])
        IN \E n \in 1..Len(d) : StatsOf(th[t].computed[k], task, SubSeq(d, 1, n))

\* thread t is in the loop of _emit with a sink still to call
Writing(t) == th[t].pc = "emit_loop" /\ th[t].j <= Len(th[t].copy)

\* where a thread that holds the lock is: in a "with self._lock" block,
\* which it leaves, releasing the lock, without waiting for anything
CritPcs ==
  {"rec_crit", "emit_crit", "cfg_crit", "add_crit", "rem_crit", "clr_crit",
   "cs_crit"}

\* C15: a thread in the loop of _emit, calling the sinks, does not hold the
\* lock, and whichever thread holds the lock is inside a locked block that
\* no sink write is part of: a write that blocks keeps no other thread from
\* taking the lock, and a sink that calls add(), remove() or clear() from
\* its write finds the lock not held by its own thread.
C15_NoLockDuringWrite ==
  /\ \A t \in Threads : th[t].pc = "emit_loop" => t \notin lock
  /\ \A u \in lock : th[u].pc \in CritPcs
  /\ Cardinality(lock) <= 1

\* C15 witness: the main thread is between two sink calls of a broadcast
\* while another thread is inside remove(), holding the lock
C15_Witness ==
  \E t, u \in Threads :
    /\ t # u
    /\ Writing(t) /\ th[t].called # <<>>
    /\ th[u].op = "remove" /\ th[u].pc = "rem_crit" /\ lock = {u}

\* s holds ids in ascending order, none twice
Ascending(s) == \A i, j \in 1..Len(s) : i < j => s[i] < s[j]

\* C16: with one thread calling, whatever was added and removed before, a
\* broadcast that has returned has called the sinks registered, each once,
\* in the order of their add() calls, which is the order of their ids.
C16_InsertionOrder ==
  \A t \in Threads :
    (th[t].msg # <<>> /\ th[t].pc \in AfterEmit) =>
      /\ th[t].called = sinks
      /\ Ascending(th[t].called)

\* C16 witness: summary() has broadcast to sinks 1, 2 and 3, the second of
\* which raises, in that order
C16_Witness ==
  \E t \in Threads :
    /\ th[t].op = "summary" /\ th[t].pc = "done"
    /\ th[t].called = <<1, 2, 3>>
    /\ sinkObj[2].fails

\* every sink made so far has had its closer called once if it is a file
\* sink that has been removed, and never otherwise
TornDownOnce ==
  \A id \in 1..Len(sinkObj) :
    sinkObj[id].closes =
      IF sinkObj[id].type = "file" /\ ~Registered(sinks, id) THEN 1 ELSE 0

\* C17: remove(id) takes that sink out of the registry and remove(None)
\* empties it; a remove() raises nothing, also when a closer's file handle
\* fails to close; and at all times a file sink that has been removed has
\* had its closer called exactly once and no other sink has had a closer
\* called, whichever threads remove.
C17_TeardownOnce ==
  [][/\ TornDownOnce'
     /\ \A t \in Threads :
          Removes(t) =>
            /\ th'[t].err = <<>>
            /\ sinks' = IF th[t].args[1] = <<>> THEN <<>>
                        ELSE SelectSeq(sinks, LAMBDA x : x # th[t].args[1][1])]_vars

\* C17 witness: remove(None) has returned with the registry empty after two
\* file sinks were added, the first with a handle that fails to close; both
\* have been closed once
C17_Witness ==
  \E t \in Threads :
    /\ th[t].op = "remove" /\ th[t].pc = "done" /\ th[t].args = << <<>> >>
    /\ th[t].err = <<>>
    /\ sinks = <<>>
    /\ Len(sinkObj) = 3
    /\ sinkObj[2].type = "file" /\ sinkObj[2].closefails
    /\ sinkObj[2].closes = 1
    /\ sinkObj[3].type = "file" /\ sinkObj[3].closes = 1

\* thread t, its sample appended, reads emit_each in this step
ReadsEmitEach(t) == th[t].pc = "rec_emit" /\ th'[t].pc # "rec_emit"

\* thread t's scope is in its per-event broadcast, or past it
InEventBroadcast(t) ==
  th[t].op = "scope" /\ th[t].msg # <<>>

\* C18: a scope reads emit_each once, after its sample has been appended.
\* When the flag is on at that moment the scope goes on to one broadcast of
\* its event line, which calls each sink of the registry, as copied by that
\* broadcast, exactly once; when it is off the scope returns and no sink has
\* been called for it.
C18_EmitEachAfterAppend ==
  [][\A t \in Threads :
       /\ ReadsEmitEach(t) =>
            /\ th[t].appended = 1
            /\ th[t].called = <<>> /\ th[t].msg = <<>>
            /\ IF config.emit_each
               THEN /\ th'[t].pc = "emit_lock"
                    /\ th'[t].msg = <<RenderEvent(config, th[t].task,
                                                  th[t].elapsed, th[t].exc)>>
               ELSE /\ th'[t].pc = "done"
                    /\ th'[t].msg = <<>>
       /\ (th'[t].op = "scope" /\ th'[t].msg = <<>>) => th'[t].called = <<>>
       /\ InEventBroadcast(t)' =>
            /\ th'[t].appended = 1
            /\ th'[t].pc = "emit_crit" => th'[t].copy = <<>>
            /\ th'[t].pc = "done" => th'[t].called = th'[t].copy
       /\ (InEventBroadcast(t) /\ th[t].pc = "emit_crit"
             /\ th'[t].pc = "emit_loop") =>
            th'[t].copy = sinks]_vars

\* C18 witness: a worker's scope has returned after its event line was
\* broadcast to two sinks, its sample appended before
C18_Witness ==
  \E t \in Threads :
    /\ ~IsMain(t)
    /\ th[t].op = "scope" /\ th[t].pc = "done"
    /\ th[t].msg # <<>>
    /\ Len(th[t].called) = 2
    /\ th[t].appended = 1

\* the number of samples of task that the report m counts
RECURSIVE CountShown(_, _)
CountShown(rows, task) ==
  IF rows = <<>> THEN 0
  ELSE IF Head(rows).task = task THEN Head(rows).count
  ELSE CountShown(Tail(rows), task)

\* summary(reset=True) holds the lock for its clear(): the recorder is what
\* the clear() will drop
Resetting(t) == th[t].op = "summary" /\ th[t].pc = "clr_crit"

\* C19: every sample that the clear() of a summary(reset=True) drops is
\* counted in the report that call returns: no task of the recorder has
\* more samples than its row of the report counts.
C19_ResetDropsNothing ==
  \A t \in Threads :
    Resetting(t) =>
      \A k \in 1..Len(records) :
        Len(records[k].durs) <= CountShown(th[t].msg[1].rows, records[k].task)

\* thread t calls the next sink of its copy in this step
CallsSink(t) == Writing(t) /\ th'[t].called # th[t].called

\* C20: a broadcast calls no sink that has been removed: the sink a thread
\* calls is registered at the time of the call.
C20_NoWriteAfterRemove ==
  [][\A t \in Threads :
       CallsSink(t) => Registered(sinks, th[t].copy[th[t].j])]_vars

====
